---- MODULE Spec2Model ----
(***************************************************************************)
(* Model of src/crlf.c (libgit2): the CRLF -> LF filter applied when a     *)
(* file goes from the working tree to the object database.                 *)
(*                                                                         *)
(*   Spec        crlf_apply_to_odb and drop_crlf, one source buffer per    *)
(*               behaviour, drop_crlf taken loop iteration by iteration.   *)
(*   SpecAttach  git_filter_add__crlf_to_odb with crlf_load_attributes,    *)
(*               check_crlf, check_eol and crlf_input_action.              *)
(*                                                                         *)
(* Indices are the C indices (0-based): At(k) is source->ptr[k].           *)
(***************************************************************************)
EXTENDS Integers, Sequences, FiniteSets, TLC

VARIABLES
    source,         \* source->ptr[0 .. size-1]
    past,           \* the byte stored at source->ptr[size], outside the buffer
    dest,           \* dest->ptr[0 .. size-1]
    dest0,          \* dest as it was on entry of the call (history)
    filter_action,  \* filter->attrs.crlf_action
    stats,          \* git_text_stats gathered by crlf_apply_to_odb
    pc,             \* position in crlf_apply_to_odb / drop_crlf
    i,              \* drop_crlf: i
    org,            \* drop_crlf: org
    ret,            \* value returned by the call (meaningful when pc = "done")
    oom,            \* an append to dest has failed for lack of memory
    reads,          \* indices k for which source->ptr[k] was read (history)
    looks,          \* values of i with which source->ptr[i + 1] was read (history)
    kept,           \* values of i with which git_buf_putc(dest, '\r') ran (history)
    pass,           \* 1: the call on the input, 2: drop_crlf on its own output
    first,          \* input of pass 1 (history, set when pass 2 starts)
    in_drop,        \* control has entered drop_crlf (history)
    filters,        \* the git_vector of filters
    filters0,       \* filters as it was on entry of the call (history)
    lookup,         \* what git_attr_get_many gives: [error, crlf, eol, text]
    auto_crlf,      \* repo->filter_options.auto_crlf
    alloc,          \* [malloc, insert]: do git__malloc / git_vector_insert succeed
    ca,             \* struct crlf_attrs as crlf_load_attributes leaves it
    add_ret,        \* value returned by git_filter_add__crlf_to_odb
    attr_calls,     \* number of git_attr_get_many calls made (history)
    add_done        \* git_filter_add__crlf_to_odb has returned

applyVars == <<source, past, dest, dest0, filter_action, stats, pc, i, org, ret,
               oom, reads, looks, kept, pass, first, in_drop>>
attachVars == <<filters, filters0, lookup, auto_crlf, alloc, ca, add_ret, attr_calls,
                add_done>>
vars == <<applyVars, attachVars>>

----------------------------------------------------------------------------
(* Bounds *)

MaxLen == 4

----------------------------------------------------------------------------
(* Bytes *)

CR == 13
LF == 10
Alphabet == {CR, LF, 65, 66}

\* What may sit at source->ptr[size], one byte behind the buffer: any byte of
\* the alphabet, or the NUL a terminated buffer has there.
PastBytes == Alphabet \cup {0}

Buffers == UNION {[1..n -> Alphabet] : n \in 0..MaxLen}

\* enum git_crlf_t, enum git_eol_t, the auto_crlf setting
GIT_CRLF_GUESS == "GIT_CRLF_GUESS"
GIT_CRLF_BINARY == "GIT_CRLF_BINARY"
GIT_CRLF_TEXT == "GIT_CRLF_TEXT"
GIT_CRLF_INPUT == "GIT_CRLF_INPUT"
GIT_CRLF_CRLF == "GIT_CRLF_CRLF"
GIT_CRLF_AUTO == "GIT_CRLF_AUTO"
CrlfActions == {GIT_CRLF_GUESS, GIT_CRLF_BINARY, GIT_CRLF_TEXT, GIT_CRLF_INPUT,
                GIT_CRLF_CRLF, GIT_CRLF_AUTO}

GIT_EOL_UNSET == "GIT_EOL_UNSET"
GIT_EOL_LF == "GIT_EOL_LF"
GIT_EOL_CRLF == "GIT_EOL_CRLF"

GIT_AUTO_CRLF_FALSE == "GIT_AUTO_CRLF_FALSE"
GIT_AUTO_CRLF_TRUE == "GIT_AUTO_CRLF_TRUE"
GIT_AUTO_CRLF_INPUT == "GIT_AUTO_CRLF_INPUT"
AutoCrlf == {GIT_AUTO_CRLF_FALSE, GIT_AUTO_CRLF_TRUE, GIT_AUTO_CRLF_INPUT}

\* error codes: the code depends on GIT_SUCCESS being 0 and the others
\* being distinct and negative (line 214)
GIT_SUCCESS == 0
GIT_ENOTFOUND == -3
GIT_ENOMEM == -4

\* what git_attr_get_many can return: success, "not found", or another error
LookupErrors == {GIT_SUCCESS, GIT_ENOTFOUND, GIT_ENOMEM, -1}

\* attribute values: the two distinguished pointers, NULL for an unset
\* attribute, or a string
git_attr__true == "[internal]__TRUE__"
git_attr__false == "[internal]__FALSE__"
NULL == "[NULL]"
AttrValues == {git_attr__true, git_attr__false, NULL, "input", "auto", "lf", "crlf"}

----------------------------------------------------------------------------
(* drop_crlf and crlf_apply_to_odb *)

\* size_t psize = source->size - 1;
psize == Len(source) - 1

\* source->ptr[k]; k = size reads the byte behind the buffer
At(k) == IF k < Len(source) THEN source[k + 1] ELSE past

\* source->ptr + from, n bytes
Chunk(from, n) == SubSeq(source, from + 1, from + n)

\* git_buf_put / git_buf_putc: append, or fail for lack of memory; once an
\* append has failed the buffer takes no more bytes
git_buf_put(d, bytes, ok) == IF ok /\ ~oom THEN d \o bytes ELSE d

\* git_text_gather_stats: the CR and CRLF counts of the buffer, and the verdict
\* of git_text_is_binary as reported by the collaborator
CountCR(s) == Cardinality({k \in 1..Len(s) : s[k] = CR})
CountCRLF(s) == Cardinality({k \in 1..(Len(s) - 1) : s[k] = CR /\ s[k + 1] = LF})
git_text_gather_stats(s, bin) ==
    [gathered |-> TRUE, cr |-> CountCR(s), crlf |-> CountCRLF(s), binary |-> bin]
NoStats == [gathered |-> FALSE, cr |-> 0, crlf |-> 0, binary |-> FALSE]

\* mutant: the heuristics run for Auto alone
UsesHeuristics_auto_only(act) == act = GIT_CRLF_AUTO

\* line 168-169: the actions for which the heuristics run
UsesHeuristics(act) == act = GIT_CRLF_AUTO \/ act = GIT_CRLF_GUESS

\* lines 179, 185, 199: the three reasons to skip the conversion
SkipsConversion(st) == st.cr # st.crlf \/ st.binary \/ st.cr = 0

\* the loop condition of lines 112 and 130
ScanCond(k) == k < psize /\ At(k) # CR

\* mutant: the scan index compared with size instead of size - 1
CleanFile_size(k) == k = Len(source)

\* line 116
CleanFile(k) == k = psize

ScanReads(k) == IF k < psize THEN {k} ELSE {}

crlf_apply_to_odb ==
    /\ pc = "idle"
    /\ UNCHANGED <<source, past, dest, dest0, filter_action, i, org, oom, reads,
                   looks, kept, pass, first, attachVars>>
    /\ IF Len(source) = 0
       THEN /\ ret' = 0
            /\ pc' = "done"
            /\ stats' = stats
       ELSE IF UsesHeuristics(filter_action)
       THEN \E bin \in BOOLEAN :
              /\ stats' = git_text_gather_stats(source, bin)
              /\ IF SkipsConversion(stats')
                 THEN ret' = -1 /\ pc' = "done"
                 ELSE ret' = ret /\ pc' = "scan"
       ELSE /\ stats' = stats
            /\ ret' = ret
            /\ pc' = "scan"
    /\ in_drop' = (pc' = "scan")

\* lines 112-113, one evaluation of the loop condition
drop_crlf_initial_scan ==
    /\ pc = "scan"
    /\ reads' = reads \cup ScanReads(i)
    /\ IF ScanCond(i)
       THEN i' = i + 1 /\ pc' = pc
       ELSE i' = i /\ pc' = "check"
    /\ UNCHANGED <<source, past, dest, dest0, filter_action, stats, org, ret, oom,
                   looks, kept, pass, first, in_drop, attachVars>>

\* lines 116-117
drop_crlf_clean_check ==
    /\ pc = "check"
    /\ IF CleanFile(i)
       THEN ret' = -1 /\ pc' = "done"
       ELSE ret' = ret /\ pc' = "loop"
    /\ UNCHANGED <<source, past, dest, dest0, filter_action, stats, i, org, oom,
                   reads, looks, kept, pass, first, in_drop, attachVars>>

\* lines 127-128
drop_crlf_loop_head ==
    /\ pc = "loop"
    /\ IF i < psize
       THEN org' = i /\ pc' = "inner"
       ELSE org' = org /\ pc' = "last"
    /\ UNCHANGED <<source, past, dest, dest0, filter_action, stats, i, ret, oom,
                   reads, looks, kept, pass, first, in_drop, attachVars>>

\* lines 130-131, one evaluation of the loop condition
drop_crlf_inner_scan ==
    /\ pc = "inner"
    /\ reads' = reads \cup ScanReads(i)
    /\ IF ScanCond(i)
       THEN i' = i + 1 /\ pc' = pc
       ELSE i' = i /\ pc' = "chunk"
    /\ UNCHANGED <<source, past, dest, dest0, filter_action, stats, org, ret, oom,
                   looks, kept, pass, first, in_drop, attachVars>>

\* lines 133-134
drop_crlf_copy_chunk ==
    /\ pc = "chunk"
    /\ IF i > org
       THEN \E ok \in BOOLEAN :
              /\ dest' = git_buf_put(dest, Chunk(org, i - org), ok)
              /\ oom' = (oom \/ ~ok)
       ELSE UNCHANGED <<dest, oom>>
    /\ pc' = "look"
    /\ UNCHANGED <<source, past, dest0, filter_action, stats, i, org, ret, reads,
                   looks, kept, pass, first, in_drop, attachVars>>

\* lines 143-147
drop_crlf_lookahead ==
    /\ pc = "look"
    /\ reads' = reads \cup {i + 1}
    /\ looks' = looks \cup {i}
    /\ IF At(i + 1) # LF
       THEN \E ok \in BOOLEAN :
              /\ dest' = git_buf_put(dest, <<CR>>, ok)
              /\ oom' = (oom \/ ~ok)
              /\ kept' = kept \cup {i}
       ELSE UNCHANGED <<dest, oom, kept>>
    /\ i' = i + 1
    /\ pc' = "loop"
    /\ UNCHANGED <<source, past, dest0, filter_action, stats, org, ret, pass,
                   first, in_drop, attachVars>>

\* lines 151-152
drop_crlf_copy_last ==
    /\ pc = "last"
    /\ reads' = reads \cup {psize}
    /\ \E ok \in BOOLEAN :
         /\ dest' = git_buf_put(dest, <<At(psize)>>, ok)
         /\ oom' = (oom \/ ~ok)
    /\ ret' = 0
    /\ pc' = "done"
    /\ UNCHANGED <<source, past, dest0, filter_action, stats, i, org, looks, kept,
                   pass, first, in_drop, attachVars>>

\* what the finished call appended to dest
Output == SubSeq(dest, Len(dest0) + 1, Len(dest))

\* drop_crlf run again, on the buffer the first call produced
drop_crlf_again ==
    /\ pc = "done" /\ pass = 1 /\ ret = 0 /\ ~oom
    /\ Len(source) > 0
    /\ pass' = 2
    /\ first' = source
    /\ in_drop' = TRUE
    /\ source' = Output
    /\ past' \in PastBytes
    /\ dest' = <<>>
    /\ dest0' = <<>>
    /\ i' = 0
    /\ org' = 0
    /\ ret' = 1
    /\ reads' = {}
    /\ looks' = {}
    /\ kept' = {}
    /\ pc' = "scan"
    /\ UNCHANGED <<filter_action, stats, oom, attachVars>>

\* the actions a filter in the list can carry (lines 223-227, 237)
AttachedActions == CrlfActions \ {GIT_CRLF_BINARY}

InitAttachIdle ==
    /\ filters = <<>>
    /\ filters0 = <<>>
    /\ lookup = [error |-> GIT_SUCCESS, crlf |-> NULL, eol |-> NULL, text |-> NULL]
    /\ auto_crlf = GIT_AUTO_CRLF_FALSE
    /\ alloc = [malloc |-> TRUE, insert |-> TRUE]
    /\ ca = [crlf_action |-> GIT_CRLF_GUESS, eol |-> GIT_EOL_UNSET]
    /\ add_ret = 0
    /\ attr_calls = 0
    /\ add_done = FALSE

Init ==
    /\ source \in Buffers
    /\ past \in PastBytes
    /\ dest0 \in {<<>>, <<66>>}
    /\ dest = dest0
    /\ filter_action \in AttachedActions
    /\ stats = NoStats
    /\ pc = "idle"
    /\ i = 0
    /\ org = 0
    /\ ret = 1
    /\ oom = FALSE
    /\ reads = {}
    /\ looks = {}
    /\ kept = {}
    /\ pass = 1
    /\ first = <<>>
    /\ in_drop = FALSE
    /\ InitAttachIdle

Next ==
    \/ crlf_apply_to_odb
    \/ drop_crlf_initial_scan
    \/ drop_crlf_clean_check
    \/ drop_crlf_loop_head
    \/ drop_crlf_inner_scan
    \/ drop_crlf_copy_chunk
    \/ drop_crlf_lookahead
    \/ drop_crlf_copy_last
    \/ drop_crlf_again

Spec == Init /\ [][Next]_vars

InitApplyIdle ==
    /\ source = <<>>
    /\ past = 0
    /\ dest0 = <<>>
    /\ dest = <<>>
    /\ filter_action = GIT_CRLF_TEXT
    /\ stats = NoStats
    /\ pc = "idle"
    /\ i = 0
    /\ org = 0
    /\ ret = 1
    /\ oom = FALSE
    /\ reads = {}
    /\ looks = {}
    /\ kept = {}
    /\ pass = 1
    /\ first = <<>>
    /\ in_drop = FALSE

----------------------------------------------------------------------------
(* git_filter_add__crlf_to_odb *)

check_crlf(value) ==
    IF value = git_attr__true THEN GIT_CRLF_TEXT
    ELSE IF value = git_attr__false THEN GIT_CRLF_BINARY
    ELSE IF value = NULL THEN GIT_CRLF_GUESS
    ELSE IF value = "input" THEN GIT_CRLF_INPUT
    ELSE IF value = "auto" THEN GIT_CRLF_AUTO
    ELSE GIT_CRLF_GUESS

check_eol(value) ==
    IF value = NULL THEN GIT_EOL_UNSET
    ELSE IF value = "lf" THEN GIT_EOL_LF
    ELSE IF value = "crlf" THEN GIT_EOL_CRLF
    ELSE GIT_EOL_UNSET

\* mutant: eol looked at before the Binary test
crlf_input_action_eol_first(c) ==
    IF c.eol = GIT_EOL_LF THEN GIT_CRLF_INPUT
    ELSE IF c.eol = GIT_EOL_CRLF THEN GIT_CRLF_CRLF
    ELSE c.crlf_action

crlf_input_action(c) ==
    IF c.crlf_action = GIT_CRLF_BINARY THEN GIT_CRLF_BINARY
    ELSE IF c.eol = GIT_EOL_LF THEN GIT_CRLF_INPUT
    ELSE IF c.eol = GIT_EOL_CRLF THEN GIT_CRLF_CRLF
    ELSE c.crlf_action

\* mutant: the crlf attribute first, the text attribute as the fallback
ResolveAction_crlf_first(text, crlf) ==
    IF check_crlf(crlf) = GIT_CRLF_GUESS THEN check_crlf(text) ELSE check_crlf(crlf)

\* lines 94-96: the text attribute first, the crlf attribute when that gives
\* GIT_CRLF_GUESS
ResolveAction(text, crlf) ==
    IF check_crlf(text) = GIT_CRLF_GUESS THEN check_crlf(crlf) ELSE check_crlf(text)

\* mutant: "not found" handed on like any other error
crlf_load_attributes_notfound_fails(lk, c0) ==
    IF lk.error = GIT_SUCCESS
    THEN [error |-> 0,
          ca |-> [crlf_action |-> ResolveAction(lk.text, lk.crlf),
                  eol |-> check_eol(lk.eol)]]
    ELSE [error |-> lk.error, ca |-> c0]

\* [error: the value returned, ca: *ca after the call]; c0 is *ca before it
crlf_load_attributes(lk, c0) ==
    IF lk.error = GIT_ENOTFOUND
    THEN [error |-> 0, ca |-> [crlf_action |-> GIT_CRLF_GUESS, eol |-> GIT_EOL_UNSET]]
    ELSE IF lk.error = GIT_SUCCESS
    THEN [error |-> 0,
          ca |-> [crlf_action |-> ResolveAction(lk.text, lk.crlf),
                  eol |-> check_eol(lk.eol)]]
    ELSE [error |-> lk.error, ca |-> c0]

\* git_vector_insert: append, or fail for lack of memory
git_vector_insert(v, f, ok) ==
    IF ok THEN [error |-> 0, v |-> Append(v, f)] ELSE [error |-> GIT_ENOMEM, v |-> v]

\* the struct crlf_filter built by lines 235-237
NewFilter(c) == [apply |-> "crlf_apply_to_odb", do_free |-> NULL, attrs |-> c]

\* git_attr_get_many fills attr_vals only when it succeeds
Lookups ==
    {[error |-> GIT_SUCCESS, crlf |-> c, eol |-> e, text |-> t] :
        c \in AttrValues, e \in AttrValues, t \in AttrValues}
    \cup {[error |-> err, crlf |-> NULL, eol |-> NULL, text |-> NULL] :
            err \in LookupErrors \ {GIT_SUCCESS}}

Allocs == {[malloc |-> m, insert |-> n] : m \in BOOLEAN, n \in BOOLEAN}

git_filter_add__crlf_to_odb ==
    /\ ~add_done
    /\ \E lk \in Lookups, ac \in AutoCrlf, al \in Allocs :
         LET loaded == crlf_load_attributes(lk, ca)
             final == [loaded.ca EXCEPT !.crlf_action = crlf_input_action(loaded.ca)]
             inserted == git_vector_insert(filters, NewFilter(final), al.insert)
         IN  /\ lookup' = lk
             /\ auto_crlf' = ac
             /\ alloc' = al
             /\ attr_calls' = attr_calls + 1
             /\ ca' = loaded.ca
             /\ IF loaded.error < 0
                THEN add_ret' = loaded.error /\ filters' = filters
                ELSE IF final.crlf_action = GIT_CRLF_BINARY
                THEN add_ret' = 0 /\ filters' = filters
                ELSE IF final.crlf_action = GIT_CRLF_GUESS /\ ac = GIT_AUTO_CRLF_FALSE
                THEN add_ret' = 0 /\ filters' = filters
                ELSE IF ~al.malloc
                THEN add_ret' = GIT_ENOMEM /\ filters' = filters
                ELSE add_ret' = inserted.error /\ filters' = inserted.v
    /\ add_done' = TRUE
    /\ UNCHANGED <<filters0, applyVars>>

\* the filters already in the vector when the call is made
FiltersOnEntry ==
    {<<>>,
     <<NewFilter([crlf_action |-> GIT_CRLF_TEXT, eol |-> GIT_EOL_UNSET])>>,
     <<NewFilter([crlf_action |-> GIT_CRLF_GUESS, eol |-> GIT_EOL_UNSET]),
       NewFilter([crlf_action |-> GIT_CRLF_CRLF, eol |-> GIT_EOL_CRLF])>>}

InitAttach ==
    /\ InitApplyIdle
    /\ filters0 \in FiltersOnEntry
    /\ filters = filters0
    /\ lookup = [error |-> GIT_SUCCESS, crlf |-> NULL, eol |-> NULL, text |-> NULL]
    /\ auto_crlf = GIT_AUTO_CRLF_FALSE
    /\ alloc = [malloc |-> TRUE, insert |-> TRUE]
    /\ ca = [crlf_action |-> GIT_CRLF_GUESS, eol |-> GIT_EOL_UNSET]
    /\ add_ret = 0
    /\ attr_calls = 0
    /\ add_done = FALSE

NextAttach == git_filter_add__crlf_to_odb

SpecAttach == InitAttach /\ [][NextAttach]_vars

----------------------------------------------------------------------------
(* Properties of drop_crlf and crlf_apply_to_odb, checked under Spec *)

\* a call of pass 1 that went through drop_crlf and returned
Returned == pc = "done" /\ pass = 1
DropReturned == pc = "done" /\ in_drop

\* s without the CRs that sit before the last byte and are followed by LF
RECURSIVE WithoutPairs(_, _)
WithoutPairs(s, k) ==
    IF k > Len(s) THEN <<>>
    ELSE IF k < Len(s) /\ s[k] = CR /\ s[k + 1] = LF THEN WithoutPairs(s, k + 1)
    ELSE <<s[k]>> \o WithoutPairs(s, k + 1)

NoCRBeforeLast(s) == \A k \in 1..(Len(s) - 1) : s[k] # CR

\* C1: Preservation. When drop_crlf does not decline (and no append fails),
\* what it appended to dest is the source without exactly the CRs that sit at
\* an index below the last and are followed by LF: every other byte appears
\* once, in order, and no byte is added.
C1_Preservation ==
    (DropReturned /\ ret = 0 /\ ~oom) => Output = WithoutPairs(source, 1)

\* C2: Idempotence. drop_crlf applied to its own output either declines or
\* produces that same buffer again.
C2_Idempotence ==
    (pc = "done" /\ pass = 2 /\ ~oom) => (ret = -1 \/ (ret = 0 /\ Output = source))

\* C3: Fast-path decline. drop_crlf returns -1 exactly when no CR sits at an
\* index in [0, last); every buffer of length 1 declines; a declining call
\* leaves dest as it was on entry.
C3_FastPathDecline ==
    DropReturned =>
        /\ (ret = -1) <=> NoCRBeforeLast(source)
        /\ ret \in {-1, 0}
        /\ Len(source) = 1 => ret = -1
        /\ ret = -1 => (dest = dest0 /\ ~oom)

C3_Witness ==
    /\ DropReturned /\ ret = -1 /\ dest0 # <<>>
    /\ Len(source) = 3 /\ source[3] = CR

\* C4: Auto/Guess guard. With action Auto or Guess and a non-empty source,
\* the call returns -1 without touching dest when the statistics report
\* cr # crlf, or binary, or cr = 0; drop_crlf is entered only when cr = crlf,
\* cr > 0 and the buffer is not binary.
C4_AutoGuessGuard ==
    (pass = 1 /\ pc # "idle" /\ Len(source) > 0
        /\ filter_action \in {GIT_CRLF_AUTO, GIT_CRLF_GUESS}) =>
      /\ stats.gathered
      /\ IF stats.cr # stats.crlf \/ stats.binary \/ stats.cr = 0
         THEN pc = "done" /\ ret = -1 /\ dest = dest0 /\ ~in_drop
         ELSE in_drop

C4_Witness ==
    /\ Returned /\ filter_action = GIT_CRLF_AUTO
    /\ stats.gathered /\ stats.cr = 3 /\ stats.crlf = 1 /\ ~stats.binary
    /\ ret = -1 /\ dest = dest0

\* C5: Empty-source decline is distinguishable. On a source of size 0 the
\* call returns the declined value (-1, lines 117, 180), which differs from
\* the value returned after a transformation (0, line 152).
C5_EmptyDeclineDistinct ==
    (Returned /\ Len(source) = 0) => (ret = -1 /\ ret # 0)

\* C9: Out-of-memory propagation. After a failed append to dest the call
\* never returns the success value 0.
C9_OomPropagates ==
    (pc = "done" /\ oom) => ret # 0

\* C10: In-bounds scan. Every index read from the source lies in [0, last];
\* source[i + 1] is read only with an i < last at which a CR was found; a CR
\* is appended only when a CR was found at the current index; the copy loop
\* ends with the scan index equal to last.
C10_InBoundsScan ==
    in_drop =>
        /\ reads \subseteq 0..psize
        /\ \A k \in looks : k < psize /\ At(k) = CR
        /\ \A k \in kept : k < psize /\ At(k) = CR
        /\ pc = "last" => i = psize

----------------------------------------------------------------------------
(* Properties of git_filter_add__crlf_to_odb, checked under SpecAttach *)

LookupOk == lookup.error \in {GIT_SUCCESS, GIT_ENOTFOUND}
AllocOk == alloc.malloc /\ alloc.insert

\* the finalized action of the resolved attributes
Finalized ==
    IF ca.crlf_action = GIT_CRLF_BINARY THEN GIT_CRLF_BINARY
    ELSE IF ca.eol = GIT_EOL_LF THEN GIT_CRLF_INPUT
    ELSE IF ca.eol = GIT_EOL_CRLF THEN GIT_CRLF_CRLF
    ELSE ca.crlf_action

ShouldAttach ==
    /\ Finalized # GIT_CRLF_BINARY
    /\ ~(Finalized = GIT_CRLF_GUESS /\ auto_crlf = GIT_AUTO_CRLF_FALSE)

OneFilterAdded ==
    /\ Len(filters) = Len(filters0) + 1
    /\ SubSeq(filters, 1, Len(filters0)) = filters0

\* C6: Attachment decision. When lookup and allocation succeed, exactly one
\* filter is inserted iff the finalized action is neither Binary nor Guess
\* with auto_crlf disabled, and that filter stores the finalized action;
\* otherwise the call returns success and leaves the list unchanged. A
\* resolved action of Binary never gets a filter.
C6_AttachDecision ==
    (add_done /\ LookupOk /\ AllocOk) =>
        /\ add_ret = 0
        /\ IF ShouldAttach
           THEN /\ OneFilterAdded
                /\ filters[Len(filters)].attrs.crlf_action = Finalized
           ELSE filters = filters0
        /\ ca.crlf_action = GIT_CRLF_BINARY => filters = filters0

C6_Witness ==
    /\ add_done /\ LookupOk /\ AllocOk
    /\ ca.crlf_action = GIT_CRLF_AUTO /\ ca.eol = GIT_EOL_LF
    /\ OneFilterAdded
    /\ filters[Len(filters)].attrs.crlf_action = GIT_CRLF_INPUT

\* the interpretation of one attribute value
Interpretation(v) ==
    CASE v = git_attr__true -> GIT_CRLF_TEXT
      [] v = git_attr__false -> GIT_CRLF_BINARY
      [] v = "input" -> GIT_CRLF_INPUT
      [] v = "auto" -> GIT_CRLF_AUTO
      [] OTHER -> GIT_CRLF_GUESS

\* C7 as stated: whenever text and crlf are both set (true, false or any
\* string), the resolved action is the interpretation of text alone.
C7_TextAlwaysWins ==
    (add_done /\ lookup.error = GIT_SUCCESS /\ lookup.text # NULL /\ lookup.crlf # NULL) =>
        ca.crlf_action = Interpretation(lookup.text)

\* C7 as amended: when the text attribute is true, false, "input" or "auto"
\* the resolved action is its interpretation, whatever crlf is; when text is
\* unset or any other string, the resolved action is the interpretation of
\* the crlf attribute.
C7_TextWinsUnlessGuess ==
    (add_done /\ lookup.error = GIT_SUCCESS) =>
        ca.crlf_action =
            IF lookup.text \in {git_attr__true, git_attr__false, "input", "auto"}
            THEN Interpretation(lookup.text)
            ELSE Interpretation(lookup.crlf)

C7_Witness ==
    /\ add_done /\ lookup.error = GIT_SUCCESS
    /\ lookup.text = git_attr__true /\ lookup.crlf = "input"
    /\ ca.crlf_action = GIT_CRLF_TEXT

\* C8: Lookup outcomes. "Not found" resolves to Guess / Unset, and a filter
\* is then attached exactly when auto_crlf is not disabled; any other error
\* is returned as it is, with the filter list unchanged and the lookup made
\* once.
C8_LookupOutcomes ==
    add_done =>
        /\ attr_calls = 1
        /\ lookup.error = GIT_ENOTFOUND =>
             /\ ca = [crlf_action |-> GIT_CRLF_GUESS, eol |-> GIT_EOL_UNSET]
             /\ AllocOk => /\ add_ret = 0
                           /\ IF auto_crlf = GIT_AUTO_CRLF_FALSE
                              THEN filters = filters0
                              ELSE OneFilterAdded
        /\ ~LookupOk => (add_ret = lookup.error /\ filters = filters0)

C8_Witness ==
    /\ add_done /\ lookup.error = GIT_ENOMEM
    /\ add_ret = GIT_ENOMEM /\ filters = filters0 /\ filters0 # <<>>

====
